---------------------------- MODULE Spec2Model ----------------------------
(***************************************************************************)
(* Model of cachu's MemoryCache (src/src/caches/MiniCache.ts).             *)
(*                                                                         *)
(* The store is a JavaScript Map: a collection of entries with unique      *)
(* keys that iterates in insertion order.  It is modelled as a sequence    *)
(* of records [key, value, createdAt] in insertion order.  Date.now() is   *)
(* the variable now (milliseconds).  The specification Spec is the         *)
(* sequential use of the cache: the caller awaits every call before it     *)
(* makes the next one.  An operation runs at one clock value; Await is     *)
(* the caller taking the result, and Tick advances the clock between       *)
(* operations.  The specification SpecOverlap is the use of write without  *)
(* awaiting: a call runs up to its first await and the rest of it runs     *)
(* later, in the order of the microtask queue.                             *)
(***************************************************************************)
EXTENDS Integers, Sequences, FiniteSets, TLC

\* ---------------------------------------------------------------- bounds
\* number of clock advances, largest finite maxAmount, largest finite maxAge
MaxTicks == 2
MaxCap == 2
MaxAgeSec == 1
\* largest number of write calls that overlap
MaxCalls == 2

\* ------------------------------------------------------ program constants
\* `?? Infinity`: the value of an omitted maxAge / maxAmount.  No store size
\* equals it and no age exceeds it; Outdated and Full below treat it so.
Infinity == -1
\* the absent marker returned by get / grab / steal
Null == 0
\* seconds to milliseconds
MsPerSecond == 1000
\* bytes of "[object Object]", the text of a stored entry
ObjectTextBytes == 15
\* Date.now() at construction: a positive number of milliseconds
StartTime == 1

\* Key includes the number 0, the initial keyOfOldestEntry of the evictor
Keys == {0, 1, 2}
Values == {1, 2}
\* the clock advances in whole seconds
TickMs == MsPerSecond

VARIABLES
  store,            \* Map<Key, {value, createdAt}> in insertion order
  maxAge,           \* seconds, or Infinity
  maxAmount,        \* entries, or Infinity
  overrideEntries,  \* boolean
  now,              \* Date.now()
  last,             \* the operation that has just completed
  pending,          \* suspended write calls, in microtask order
  burst             \* the write calls made since no call was pending

vars ==
  <<store, maxAge, maxAmount, overrideEntries, now, last, pending, burst>>
\* what the awaited operations leave alone
overlap == <<pending, burst>>
config == <<maxAge, maxAmount, overrideEntries>>

\* ------------------------------------------------------------ Map helpers
Entry(k, v, t) == [key |-> k, value |-> v, createdAt |-> t]

StoreKeys(s) == {s[i].key : i \in DOMAIN s}

StoreHas(s, k) == \E i \in DOMAIN s : s[i].key = k

StoreGet(s, k) == s[CHOOSE i \in DOMAIN s : s[i].key = k]

StoreDelete(s, k) == SelectSeq(s, LAMBDA e : e.key # k)

\* StoreSet with the bug of keeping the creation time of a replaced entry
StoreSet_keepsCreatedAt(s, k, v, t) ==
  IF StoreHas(s, k)
    THEN [i \in DOMAIN s |->
            IF s[i].key = k THEN Entry(k, v, s[i].createdAt) ELSE s[i]]
    ELSE Append(s, Entry(k, v, t))

\* Map.set: an existing key keeps its place in the iteration order
StoreSet(s, k, v, t) ==
  IF StoreHas(s, k)
    THEN [i \in DOMAIN s |-> IF s[i].key = k THEN Entry(k, v, t) ELSE s[i]]
    ELSE Append(s, Entry(k, v, t))

StoreSize(s) == Len(s)

\* ----------------------------------------------------------- the sweeper
\* Outdated with the bug of expiring an entry aged exactly maxAge seconds
Outdated_atLeast(e, t) ==
  /\ maxAge # Infinity
  /\ t - e.createdAt >= maxAge * MsPerSecond

\* Date.now() - value.createdAt > this.maxAge * 1000
Outdated(e, t) ==
  /\ maxAge # Infinity
  /\ t - e.createdAt > maxAge * MsPerSecond

purgeOutdatedEntries(s, t) == SelectSeq(s, LAMBDA e : ~Outdated(e, t))

\* ----------------------------------------------------------- the evictor
RECURSIVE ScanOldest(_, _, _, _)
ScanOldest(s, i, oldestAge, keyOfOldestEntry) ==
  IF i > Len(s) THEN keyOfOldestEntry
  ELSE IF s[i].createdAt > oldestAge
    THEN ScanOldest(s, i + 1, s[i].createdAt, s[i].key)
    ELSE ScanOldest(s, i + 1, oldestAge, keyOfOldestEntry)

\* the scan with the bug of comparing with >=: the last of the entries
\* that share the largest createdAt is selected
RECURSIVE ScanOldestLast(_, _, _, _)
ScanOldestLast(s, i, oldestAge, keyOfOldest) ==
  IF i > Len(s) THEN keyOfOldest
  ELSE IF s[i].createdAt >= oldestAge
    THEN ScanOldestLast(s, i + 1, s[i].createdAt, s[i].key)
    ELSE ScanOldestLast(s, i + 1, oldestAge, keyOfOldest)

keyOfOldestEntry_lastTie(s) == ScanOldestLast(s, 1, 0, 0)

keyOfOldestEntry(s) == ScanOldest(s, 1, 0, 0)

purgeOldestEntry(s) == StoreDelete(s, keyOfOldestEntry(s))

\* --------------------------------------------------------- pure accessors
\* Declined with the bug of testing overrideEntries instead of its negation
Declined_inverted(s, k) == StoreHas(s, k) /\ overrideEntries

\* write declines when the key exists and overriding is off
Declined(s, k) == StoreHas(s, k) /\ ~overrideEntries

\* Full with the bug of testing size > maxAmount
Full_exceeds(s) == maxAmount # Infinity /\ StoreSize(s) > maxAmount

\* this.store.size === this.maxAmount
Full(s) == maxAmount # Infinity /\ StoreSize(s) = maxAmount

\* Evicted with the bug of evicting whatever the size of the store
Evicted_always(s) == purgeOldestEntry(s)

Evicted(s) == IF Full(s) THEN purgeOldestEntry(s) ELSE s

\* writeStore with the bug of evicting before the sweep
writeStore_evictFirst(s, t, k, v) ==
  IF Declined(s, k) THEN s
  ELSE StoreSet(purgeOutdatedEntries(Evicted(s), t), k, v, t)

\* writeStore with the bug of evicting after the insertion
writeStore_evictLast(s, t, k, v) ==
  IF Declined(s, k) THEN s
  ELSE Evicted(StoreSet(purgeOutdatedEntries(s, t), k, v, t))

writeStore(s, t, k, v) ==
  IF Declined(s, k) THEN s
  ELSE StoreSet(Evicted(purgeOutdatedEntries(s, t)), k, v, t)

lookup(s, k) == IF StoreHas(s, k) THEN StoreGet(s, k).value ELSE Null

\* getValue with the bug of reading the store before the sweep
getValue_unswept(s, t, k) == lookup(s, k)

getValue(s, t, k) == lookup(purgeOutdatedEntries(s, t), k)

grabValue(s, k) == lookup(s, k)

\* stealStore with the bug of deleting the key without the sweep
stealStore_unswept(s, t, k) == StoreDelete(s, k)

\* stealStore with the bug of leaving the stolen entry in the store
stealStore_keeps(s, t, k) == purgeOutdatedEntries(s, t)

stealStore(s, t, k) == StoreDelete(purgeOutdatedEntries(s, t), k)

\* updateStore with the bug of declining, as write does, when overriding
\* is off
updateStore_declines(s, t, k, v) ==
  IF ~StoreHas(s, k) \/ ~overrideEntries THEN s ELSE StoreSet(s, k, v, t)

\* updateStore with the bug of creating the entry of an absent key
updateStore_upsert(s, t, k, v) == StoreSet(s, k, v, t)

updateStore(s, t, k, v) == IF ~StoreHas(s, k) THEN s ELSE StoreSet(s, k, v, t)

\* [...this.store.values()].toString(): every stored entry is an object
\* and reads "[object Object]"; the entries are joined by one comma each
valuesText(s) ==
  IF Len(s) = 0 THEN 0 ELSE Len(s) * ObjectTextBytes + (Len(s) - 1)

\* Buffer.byteLength(Buffer.from(values)) of the unswept store
consumedMemory(s) == valuesText(s)

\* ------------------------------------------------------------------ state
\* last records the operation that has just completed and that the caller
\* has not yet awaited: its name and arguments (value Null when it takes
\* none), the value it returned (Null for an operation that returns
\* nothing), whether the key was in the store when it began and whether
\* its entry was then outdated, and the keys removed by its sweep and by
\* its capacity eviction.  Its op is "none" when the caller is ready to
\* make a call.
Done(op, k, v, res, swept, evicted) ==
  [op |-> op, key |-> k, value |-> v, result |-> res,
   had |-> StoreHas(store, k),
   stale |-> StoreHas(store, k) /\ Outdated(StoreGet(store, k), now),
   swept |-> swept, evicted |-> evicted]

Idle(op) ==
  [op |-> op, key |-> 0, value |-> Null, result |-> Null, had |-> FALSE,
   stale |-> FALSE, swept |-> {}, evicted |-> {}]

Ready == last.op = "none"

Init ==
  /\ store = <<>>
  /\ maxAge \in (0..MaxAgeSec) \cup {Infinity}
  /\ maxAmount \in (0..MaxCap) \cup {Infinity}
  /\ overrideEntries \in BOOLEAN
  /\ now = StartTime
  /\ last = Idle("none")
  /\ pending = <<>>
  /\ burst = <<>>

\* ---------------------------------------------------------------- actions
write(k, v) ==
  Ready /\
  LET fresh == purgeOutdatedEntries(store, now)
      room == Evicted(fresh)
  IN /\ store' = writeStore(store, now, k, v)
     /\ last' = IF Declined(store, k)
                  THEN Done("write", k, v, Null, {}, {})
                  ELSE Done("write", k, v, Null,
                            StoreKeys(store) \ StoreKeys(fresh),
                            StoreKeys(fresh) \ StoreKeys(room))
     /\ UNCHANGED <<config, now, overlap>>

get(k) ==
  Ready /\
  LET fresh == purgeOutdatedEntries(store, now)
  IN /\ store' = fresh
     /\ last' = Done("get", k, Null, getValue(store, now, k),
                     StoreKeys(store) \ StoreKeys(fresh), {})
     /\ UNCHANGED <<config, now, overlap>>

grab(k) ==
  /\ Ready
  /\ last' = Done("grab", k, Null, grabValue(store, k), {}, {})
  /\ UNCHANGED <<store, config, now, overlap>>

steal(k) ==
  Ready /\
  LET fresh == purgeOutdatedEntries(store, now)
  IN /\ store' = stealStore(store, now, k)
     /\ last' = Done("steal", k, Null, getValue(store, now, k),
                     StoreKeys(store) \ StoreKeys(fresh), {})
     /\ UNCHANGED <<config, now, overlap>>

update(k, v) ==
  /\ Ready
  /\ store' = updateStore(store, now, k, v)
  /\ last' = Done("update", k, v, Null, {}, {})
  /\ UNCHANGED <<config, now, overlap>>

purge(k) ==
  /\ Ready
  /\ store' = StoreDelete(store, k)
  /\ last' = Done("purge", k, Null, Null, {}, {})
  /\ UNCHANGED <<config, now, overlap>>

has(k) ==
  /\ Ready
  /\ last' = Done("has", k, Null, StoreHas(store, k), {}, {})
  /\ UNCHANGED <<store, config, now, overlap>>

prune ==
  Ready /\
  LET fresh == purgeOutdatedEntries(store, now)
  IN /\ store' = fresh
     /\ last' = [Idle("prune") EXCEPT
                    !.swept = StoreKeys(store) \ StoreKeys(fresh)]
     /\ UNCHANGED <<config, now, overlap>>

getConsumedMemory ==
  /\ Ready
  /\ last' = [Idle("getConsumedMemory") EXCEPT
                 !.result = consumedMemory(store)]
  /\ UNCHANGED <<store, config, now, overlap>>

\* the caller awaits the promise of the call it made
Await ==
  /\ ~Ready
  /\ last' = Idle("none")
  /\ UNCHANGED <<store, config, now, overlap>>

\* time passes between two operations
Tick ==
  /\ Ready
  /\ now + TickMs <= StartTime + MaxTicks * TickMs
  /\ now' = now + TickMs
  /\ UNCHANGED <<store, config, last, overlap>>

Next ==
  \/ \E k \in Keys, v \in Values : write(k, v)
  \/ \E k \in Keys : get(k)
  \/ \E k \in Keys : grab(k)
  \/ \E k \in Keys : steal(k)
  \/ \E k \in Keys, v \in Values : update(k, v)
  \/ \E k \in Keys : purge(k)
  \/ \E k \in Keys : has(k)
  \/ prune
  \/ getConsumedMemory
  \/ Await
  \/ Tick

Spec == Init /\ [][Next]_vars

\* ------------------------------------------------- overlapping writes
\* A call of write runs up to its first await: it takes Date.now(),
\* returns if the write is declined, sweeps, and is suspended at
\* `await this.purgeOutdatedEntries()`.  A suspended call is resumed in
\* the order of the microtask queue.  burst lists the calls made since no
\* call was pending, each with whether its key was in the store.
writeCall(k, v) ==
  /\ pending = <<>> \/ Len(burst) < MaxCalls
  /\ burst' = Append(IF pending = <<>> THEN <<>> ELSE burst,
                     [key |-> k, value |-> v, had |-> StoreHas(store, k)])
  /\ IF Declined(store, k)
       THEN UNCHANGED <<store, pending>>
       ELSE /\ store' = purgeOutdatedEntries(store, now)
            /\ pending' = Append(pending,
                                 [key |-> k, value |-> v, createdAt |-> now,
                                  pc |-> "swept"])
  /\ UNCHANGED <<config, now, last>>

\* The first suspended call goes on: after the sweep it tests the size and
\* either evicts and is suspended again at `await this.purgeOldestEntry()`
\* or sets its entry; after the eviction it sets its entry.
writeResume ==
  /\ pending # <<>>
  /\ LET call == Head(pending)
     IN IF call.pc = "swept" /\ Full(store)
          THEN /\ store' = purgeOldestEntry(store)
               /\ pending' = Append(Tail(pending),
                                    [call EXCEPT !.pc = "evicted"])
          ELSE /\ store' = StoreSet(store, call.key, call.value,
                                    call.createdAt)
               /\ pending' = Tail(pending)
  /\ UNCHANGED <<config, now, last, burst>>

\* maxAmount = 0 is left to the sequential specification
InitOverlap ==
  /\ store = <<>>
  /\ maxAge \in (0..MaxAgeSec) \cup {Infinity}
  /\ maxAmount \in (1..MaxCap) \cup {Infinity}
  /\ overrideEntries \in BOOLEAN
  /\ now = StartTime
  /\ last = Idle("none")
  /\ pending = <<>>
  /\ burst = <<>>

NextOverlap ==
  \/ \E k \in Keys, v \in Values : writeCall(k, v)
  \/ writeResume
  \/ Tick

SpecOverlap == InitOverlap /\ [][NextOverlap]_vars

\* keys are unique in the store and no entry is younger than the clock
TypeOK ==
  /\ \A i, j \in DOMAIN store : store[i].key = store[j].key => i = j
  /\ \A i \in DOMAIN store : StartTime <= store[i].createdAt /\ store[i].createdAt <= now

\* ----------------------------------------------------- vocabulary of claims
Entries(s) == {s[i] : i \in DOMAIN s}

AgeMs(e, t) == t - e.createdAt

\* the entry's age exceeds maxAge seconds (never, when maxAge is omitted)
Expired(e, t) == maxAge # Infinity /\ AgeMs(e, t) > maxAge * 1000

Live(s, t) == {e \in Entries(s) : ~Expired(e, t)}

\* the entries among es whose key is no longer in the store s2
Gone(es, s2) == {e \in es : ~StoreHas(s2, e.key)}

\* a write that was not declined
Admitted == last.op = "write" /\ (~last.had \/ overrideEntries)

\* ------------------------------------------------------------------- C1
\* C1: at the end of every completed write the store holds at most
\* maxAmount entries, for every finite maxAmount >= 0.
C1_CapacityBound ==
  (last.op = "write" /\ maxAmount # Infinity) => Len(store) <= maxAmount

\* ------------------------------------------------------------------- C2
\* C2: a write of an absent key that finds exactly maxAmount entries after
\* the sweep removes at most one of them, and the one it removes has the
\* smallest createdAt among the entries present after the sweep.
C2_OldestFirstEviction ==
  [][(last'.op = "write" /\ ~last'.had
        /\ Cardinality(Live(store, now)) = maxAmount)
     => LET gone == Gone(Live(store, now), store')
        IN /\ Cardinality(gone) <= 1
           /\ \A e \in gone : \A f \in Live(store, now) :
                e.createdAt <= f.createdAt]_vars

\* ------------------------------------------------------------------- C3
\* C3: for a key whose entry is older than maxAge seconds, get returns the
\* absent marker and removes the entry, while grab in the same state
\* returns the stale value and leaves the store unchanged.
C3_ExpiredReads ==
  [][(last'.had /\ Expired(StoreGet(store, last'.key), now))
     => /\ last'.op = "get"
           => (last'.result = Null /\ ~StoreHas(store', last'.key))
        /\ last'.op = "grab"
           => (last'.result = StoreGet(store, last'.key).value
                 /\ store' = store)]_vars

\* a get has just swept the entry of its key
C3_Witness ==
  /\ last.op = "get"
  /\ last.key \in last.swept
  /\ last.result = Null

\* ------------------------------------------------------------------- C4
\* C4: with overrideEntries false, a write to a present key changes no
\* entry of the store: neither the key's entry, nor any expired entry
\* (no sweep), nor any other entry (no eviction).
C4_DeclinedWriteNoOp ==
  [][(last'.op = "write" /\ last'.had /\ ~overrideEntries)
     => store' = store]_vars

\* a declined write has left an expired entry in a store at capacity
C4_Witness ==
  /\ last.op = "write"
  /\ last.had
  /\ ~overrideEntries
  /\ Len(store) = maxAmount
  /\ StoreGet(store, last.key).value # last.value
  /\ \E e \in Entries(store) : Expired(e, now)

\* ------------------------------------------------------------------- C5
\* C5: after write(k, v) of a key that had no entry, get(k) at the same
\* clock value returns v.
C5_ReadYourWrite ==
  [][(last'.op = "write" /\ ~last'.had)
     => getValue(store', now', last'.key) = last'.value]_vars

\* a write of an absent key has evicted an entry and its key is present
C5_Witness ==
  /\ last.op = "write"
  /\ ~last.had
  /\ last.evicted # {}
  /\ StoreHas(store, last.key)

\* ------------------------------------------------------------------- C6
\* C6: with overrideEntries true, after write(k, v2) to a present key the
\* entry of k holds v2 and createdAt equal to the time of the write.
C6_OverridingWrite ==
  [][(last'.op = "write" /\ last'.had /\ overrideEntries)
     => /\ StoreHas(store', last'.key)
        /\ StoreGet(store', last'.key).value = last'.value
        /\ StoreGet(store', last'.key).createdAt = now
        /\ AgeMs(StoreGet(store', last'.key), now') = 0]_vars

\* an overriding write to a present key has completed later than the
\* store's oldest entry was created
C6_Witness ==
  /\ last.op = "write"
  /\ last.had
  /\ overrideEntries
  /\ StoreHas(store, last.key)
  /\ StoreGet(store, last.key).createdAt = now
  /\ \E e \in Entries(store) : e.createdAt < now

\* ------------------------------------------------------------------- C7
\* C7: with overrideEntries true, a write to a present key into a store of
\* exactly maxAmount non-expired entries removes no entry: every other key
\* keeps its entry and the store size is unchanged.
C7_OverrideEvictsNothing ==
  [][(last'.op = "write" /\ last'.had /\ overrideEntries
        /\ Len(store) = maxAmount
        /\ \A e \in Entries(store) : ~Expired(e, now))
     => /\ Len(store') = Len(store)
        /\ \A e \in Entries(store) :
             e.key # last'.key => e \in Entries(store')]_vars

\* ------------------------------------------------------------------- C8
\* C8: steal of a present, non-expired key returns its value and removes
\* it, every other non-expired entry is unchanged, and a steal of the same
\* key right after returns the absent marker.
C8_StealReadsAndRemoves ==
  [][last'.op = "steal"
     => /\ (last'.had /\ ~Expired(StoreGet(store, last'.key), now))
           => /\ last'.result = StoreGet(store, last'.key).value
              /\ ~StoreHas(store', last'.key)
              /\ \A e \in Live(store, now) :
                   e.key # last'.key => e \in Entries(store')
              /\ getValue(store', now', last'.key) = Null
        /\ ~last'.had => last'.result = Null]_vars

\* a steal has returned a value and left another entry in the store
C8_Witness ==
  /\ last.op = "steal"
  /\ last.had
  /\ last.result # Null
  /\ ~StoreHas(store, last.key)
  /\ store # <<>>

\* ------------------------------------------------------------------- C9
\* C9: for a key absent from the store, update, purge, grab and has leave
\* the whole store unchanged, has reports false, and get, grab and steal
\* return the absent marker.
C9_MissingKeyNoOps ==
  [][(last'.op \in {"update", "purge", "grab", "has", "get", "steal"}
        /\ ~last'.had)
     => /\ last'.op \in {"update", "purge", "grab", "has"} => store' = store
        /\ last'.op = "update" => ~StoreHas(store', last'.key)
        /\ last'.op = "has" => last'.result = FALSE
        /\ last'.op \in {"get", "grab", "steal"} => last'.result = Null]_vars

\* an update of an absent key has left a store with an expired entry as
\* it was
C9_Witness ==
  /\ last.op = "update"
  /\ ~last.had
  /\ ~StoreHas(store, last.key)
  /\ \E e \in Entries(store) : Expired(e, now)

\* ------------------------------------------------------------------ C10
\* C10: right after a get, steal, prune or admitted write no entry of the
\* store is older than maxAge seconds; the sweep removes no entry aged
\* maxAge seconds or less; after prune has(k) is false for every key
\* whose entry had expired.
C10_SweepPostcondition ==
  [][(last'.op \in {"get", "steal", "prune"} \/ Admitted')
     => /\ \A e \in Entries(store') : ~Expired(e, now')
        /\ \A k \in last'.swept : Expired(StoreGet(store, k), now)
        /\ last'.op \in {"get", "prune"}
           => \A e \in Live(store, now) : e \in Entries(store')
        /\ last'.op = "steal"
           => \A e \in Live(store, now) :
                e.key # last'.key => e \in Entries(store')]_vars

\* a prune has swept an entry and kept one aged exactly maxAge seconds
C10_Witness ==
  /\ last.op = "prune"
  /\ last.swept # {}
  /\ \E e \in Entries(store) : AgeMs(e, now) = maxAge * 1000

\* ------------------------------------------------------------------ C11
\* C11: getConsumedMemory measures only the entries that are not expired
\* at the time of the call: its result is the size of the text of the
\* entries aged maxAge seconds or less.
C11_MemoryOfLiveEntries ==
  [][last'.op = "getConsumedMemory"
     => last'.result =
          valuesText(SelectSeq(store, LAMBDA e : ~Expired(e, now)))]_vars

\* ------------------------------------------------------------------ C12
\* C12: with maxAmount >= 1, a write of an absent key into a store of
\* exactly maxAmount non-expired entries removes exactly one of them and
\* ends with exactly maxAmount entries, the written key among them.
C12_FullStoreInsertion ==
  [][(last'.op = "write" /\ ~last'.had /\ maxAmount >= 1
        /\ Cardinality(Live(store, now)) = maxAmount)
     => /\ Cardinality(Gone(Live(store, now), store')) = 1
        /\ Len(store') = maxAmount
        /\ StoreHas(store', last'.key)
        /\ StoreGet(store', last'.key).value = last'.value]_vars

\* a write of an absent key has evicted one entry of a full store of
\* MaxCap entries, none of them expired
C12_Witness ==
  /\ last.op = "write"
  /\ ~last.had
  /\ maxAmount = MaxCap
  /\ last.swept = {}
  /\ Cardinality(last.evicted) = 1
  /\ Len(store) = maxAmount
  /\ StoreHas(store, last.key)

\* ------------------------------------------------------------------ C13
\* C13 as stated: write, update, purge and steal each run the sweep before
\* they change the store, so right after any of them no entry other than
\* the one just written is older than maxAge seconds.
C13_SweepBeforeEveryMutation ==
  [][last'.op \in {"write", "update", "purge", "steal"}
     => \A e \in Entries(store') :
          Expired(e, now')
          => (last'.op \in {"write", "update"} /\ e.key = last'.key)]_vars

\* C13 as amended: an admitted write and steal run the sweep before they
\* change the store, so right after them no entry is older than maxAge
\* seconds; update, purge and a declined write do not sweep: every expired
\* entry of another key is still in the store after them.
C13_SweepBeforeWriteAndSteal ==
  [][/\ (last'.op = "steal" \/ Admitted')
        => /\ \A e \in Entries(store') : ~Expired(e, now')
           /\ last'.swept =
                {e.key : e \in Entries(store) \ Live(store, now)}
     /\ (last'.op \in {"update", "purge"}
           \/ (last'.op = "write" /\ ~Admitted'))
        => \A e \in Entries(store) :
             (Expired(e, now) /\ e.key # last'.key)
             => e \in Entries(store')]_vars

\* a purge has removed its key and left an expired entry in the store
C13_Witness ==
  /\ last.op = "purge"
  /\ last.had
  /\ ~StoreHas(store, last.key)
  /\ \E e \in Entries(store) : Expired(e, now)

\* ------------------------------------------------------------------ C14
\* C14: a write of an absent key that finds exactly maxAmount entries, at
\* least one of them expired, removes only expired entries: no capacity
\* eviction takes place and every non-expired entry survives.
C14_SweepBeforeCapacityCheck ==
  [][(last'.op = "write" /\ ~last'.had /\ Len(store) = maxAmount
        /\ \E e \in Entries(store) : Expired(e, now))
     => /\ last'.evicted = {}
        /\ \A e \in Live(store, now) : e \in Entries(store')
        /\ \A e \in Gone(Entries(store), store') : Expired(e, now)]_vars

\* a write of an absent key has swept one entry of a full store, evicted
\* none and left an older entry beside the new one
C14_Witness ==
  /\ last.op = "write"
  /\ ~last.had
  /\ Cardinality(last.swept) = 1
  /\ last.evicted = {}
  /\ Len(store) = maxAmount
  /\ \E e \in Entries(store) : e.key # last.key

\* ------------------------------------------------------------------ C15
\* C15: update of a present key sets its entry to the value with createdAt
\* = now and changes nothing else: every other entry, the order and the
\* size of the store are as before, whatever overrideEntries is and also
\* when the old entry was older than maxAge seconds; a get of the key at
\* the same clock value then returns the value.
C15_UpdateInPlace ==
  [][(last'.op = "update" /\ last'.had)
     => /\ Len(store') = Len(store)
        /\ \A i \in DOMAIN store :
             store'[i] = IF store[i].key = last'.key
                           THEN [key |-> last'.key, value |-> last'.value,
                                 createdAt |-> now]
                           ELSE store[i]
        /\ getValue(store', now', last'.key) = last'.value]_vars

\* with overriding off, an update has refreshed an entry that was older
\* than maxAge seconds and left another expired entry in the store
C15_Witness ==
  /\ last.op = "update"
  /\ last.stale
  /\ ~overrideEntries
  /\ StoreGet(store, last.key) =
       [key |-> last.key, value |-> last.value, createdAt |-> now]
  /\ \E e \in Entries(store) : Expired(e, now)

C17_RemovalCauses ==
  [][\A e \in Gone(Entries(store), store') :
       /\ \/ (last'.op \in {"purge", "steal"} /\ last'.key = e.key)
          \/ /\ (last'.op \in {"get", "steal", "prune"} \/ Admitted')
             /\ Expired(e, now)
          \/ /\ Admitted'
             /\ Cardinality(Live(store, now)) = maxAmount
             /\ e.key \in last'.evicted
       /\ (maxAge = Infinity /\ maxAmount = Infinity)
          => (last'.op \in {"purge", "steal"} /\ last'.key = e.key)]_vars

\* with maxAge and maxAmount omitted, a purge has removed its key from a
\* store that holds every other key
C17_Witness ==
  /\ last.op = "purge"
  /\ last.had
  /\ maxAge = Infinity
  /\ maxAmount = Infinity
  /\ StoreKeys(store) = Keys \ {last.key}

\* ------------------------------------------------------------------ C18
\* C18: with overrideEntries false, a write to a key whose only entry is
\* older than maxAge seconds and not yet swept is not lost: get of the key
\* at the same clock value returns the written value.
C18_WriteOverExpiredEntry ==
  [][(last'.op = "write" /\ ~overrideEntries /\ last'.had
        /\ Expired(StoreGet(store, last'.key), now))
     => getValue(store', now', last'.key) = last'.value]_vars

\* ------------------------------------------------------------------ C19
\* C19: once two or more overlapping write calls for distinct keys, none
\* of them in the store at its call, have all completed, the store holds
\* at most maxAmount entries.
C19_CapacityBoundOverlapping ==
  (/\ pending = <<>>
   /\ Len(burst) >= 2
   /\ \A i, j \in DOMAIN burst : burst[i].key = burst[j].key => i = j
   /\ \A i \in DOMAIN burst : ~burst[i].had
   /\ maxAmount # Infinity)
  => Len(store) <= maxAmount

\* ------------------------------------------------------------------ C20
\* C20: with overrideEntries false, once write(k, v1) and write(k, v2),
\* made in this order for an absent key without awaiting the first, have
\* both completed, the store holds k with v1.
C20_FirstWriterWins ==
  (/\ pending = <<>>
   /\ ~overrideEntries
   /\ Len(burst) = 2
   /\ burst[1].key = burst[2].key
   /\ ~burst[1].had)
  => /\ StoreHas(store, burst[1].key)
     /\ StoreGet(store, burst[1].key).value = burst[1].value

=============================================================================
